---- MODULE Spec2Model ----
(***************************************************************************)
(* Long running plugin manager (agent/longrunning/manager) and the plugin  *)
(* catalog (agent/framework/plugin) of amazon-ssm-agent.                   *)
(*                                                                         *)
(* Three specifications share this module:                                 *)
(*   Spec        the Manager after construction: Execute, the scheduled    *)
(*               ensurePluginsAreRunning, the start pool, RequestStop;     *)
(*   InitSpec    concurrent callers of EnsureInitialization (once.Do);     *)
(*   CatalogSpec concurrent first callers of RegisteredWorkerPlugins and   *)
(*               RegisteredLongRunningPlugins.                             *)
(***************************************************************************)
EXTENDS FiniteSets, Integers, Sequences, TLC

(* ---------------------------- bounds ---------------------------------- *)
\* number of Execute calls made on the Manager (each may register a schedule)
MaxExecuteCalls == 2
\* number of RequestStop calls
MaxStopCalls == 1
\* number of concurrent EnsureInitialization callers
MaxInitCallers == 3
\* number of concurrent first callers of the plugin catalog
MaxCatalogCallers == 2
\* number of GetInstance calls
MaxGetCalls == 2

(* --------------------------- constants -------------------------------- *)
PluginNameAwsCloudwatch == "aws:cloudWatch"
\* a name the data store may hold that RegisteredPlugins never registers
UnknownPluginName == "unknown:plugin"
PluginNames == {PluginNameAwsCloudwatch, UnknownPluginName}

NumberOfLongRunningPluginWorkers == 5
NumberOfCancelWorkers == 5
HardStopTimeout == 4
SoftStopTimeout == 20
StopTypes == {"SoftStop", "HardStop"}

\* the nil *scheduler.Job / nil *Manager
NoJob == 0

ExecCalls == 1..MaxExecuteCalls
StopCalls == 1..MaxStopCalls
InitCallers == 1..MaxInitCallers
CatalogCallers == 1..MaxCatalogCallers
GetCalls == 1..MaxGetCalls

VARIABLES
    \* ---- Manager (coreplugin.go:52-69) ----
    registeredPlugins,     \* keys of m.registeredPlugins (each has a Handler)
    runningPlugins,        \* keys of m.runningPlugins
    managingLifeCycleJob,  \* NoJob, or the schedule the handle points to
    \* ---- goroutines ----
    exec,                  \* Execute calls
    run,                   \* ensurePluginsAreRunning runs, one per schedule
    stop,                  \* RequestStop calls
    lockReaders,           \* holders of lock.RLock() (utils.go:30-32)
    \* ---- collaborators ----
    startPool,             \* jobs of m.startPlugin that are pending or running
    startPoolClosed,       \* m.startPlugin.ShutdownAndWait was called
    stopPoolClosed,        \* m.stopPlugin.ShutdownAndWait was called
    alive,                 \* plugins whose Handler.IsRunning reports true
    schedActive,           \* schedules whose scheduler goroutine still loops
    quitChan,              \* schedules with a value buffered in Job.Quit
    crashed,               \* an unrecovered panic ended the process
    \* ---- EnsureInitialization (coreplugin.go:71-107) ----
    singletonInstance,     \* NoJob (nil) or the caller that built the Manager
    onceDone,              \* sync.Once: done
    onceM,                 \* sync.Once: holder of the mutex, or 0
    initPc,                \* position of every EnsureInitialization caller
    loadCount,             \* calls of RegisteredPlugins()
    poolCount,             \* pairs of pools created
    assignCount,           \* assignments to singletonInstance
    got,                   \* GetInstance calls and what they returned
    \* ---- plugin catalog (plugin.go:38-82) ----
    registeredExecuters,   \* 0 (nil) or the caller whose load is cached
    catPc,                 \* position of every catalog caller
    workerLoads,           \* calls of loadWorkerPlugins
    longRunningLoads,      \* calls of loadLongRunningPlugins
    cacheSwaps             \* executions of cache()

mgrVars == <<registeredPlugins, runningPlugins, managingLifeCycleJob, exec, run,
             stop, lockReaders, startPool, startPoolClosed, stopPoolClosed,
             alive, schedActive, quitChan, crashed>>
initVars == <<singletonInstance, onceDone, onceM, initPc, loadCount, poolCount,
              assignCount, got>>
catVars == <<registeredExecuters, catPc, workerLoads, longRunningLoads, cacheSwaps>>
vars == <<mgrVars, initVars, catVars>>

(* ------------------------ RegisteredPlugins ---------------------------- *)
\* utils.go:67-88: the map holds aws:cloudWatch when cloudwatch.NewPlugin
\* succeeded and is empty otherwise.
RegisteredPlugins == {{PluginNameAwsCloudwatch}, {}}

(* ------------------------------ Execute -------------------------------- *)
IdleExec == [pc |-> "idle", todo |-> {}, cur |-> "", err |-> "nil",
             readFailed |-> FALSE, schedFailed |-> FALSE, flag |-> "none"]
IdleRun == [pc |-> "idle", todo |-> {}, cur |-> "", snap |-> {}, subs |-> {},
            sawRunning |-> {}, rejected |-> {}]
IdleGet == [pc |-> "idle", inst |-> NoJob, err |-> "none", initReturned |-> FALSE,
            stopReturned |-> FALSE]
IdleStop == [pc |-> "idle", stopType |-> "none", waitTimeout |-> 0,
             seen |-> {}, sdStart |-> "no", sdStop |-> "no",
             toStart |-> 0, toStop |-> 0, ret |-> "none"]

\* Execute without the return of line 141
ExecuteReadNoReturn(c) ==
    /\ ~crashed
    /\ exec[c].pc = "idle"
    /\ \A d \in ExecCalls : d < c => exec[d].pc # "idle"
    /\ \/ \E S \in SUBSET PluginNames :
            /\ runningPlugins' = S
            /\ exec' = [exec EXCEPT ![c].pc = "len", ![c].err = "nil"]
       \/ /\ runningPlugins' = {}
          /\ exec' = [exec EXCEPT ![c].pc = "len", ![c].err = "readErr",
                                  ![c].readFailed = TRUE]
    /\ UNCHANGED <<registeredPlugins, managingLifeCycleJob, run, stop, lockReaders,
                   startPool, startPoolClosed, stopPoolClosed, alive, schedActive,
                   quitChan, crashed, initVars, catVars>>

\* coreplugin.go:132-142: the calls are numbered in the order they are made.
\* coreplugin.go:138-142: m.runningPlugins, err = dataStore.Read(); on an
\* error Execute returns it at once.
ExecuteRead(c) ==
    /\ ~crashed
    /\ exec[c].pc = "idle"
    /\ \A d \in ExecCalls : d < c => exec[d].pc # "idle"
    /\ \/ \E S \in SUBSET PluginNames :
            /\ runningPlugins' = S
            /\ exec' = [exec EXCEPT ![c].pc = "len", ![c].err = "nil"]
       \/ /\ runningPlugins' = {}
          /\ exec' = [exec EXCEPT ![c].pc = "done", ![c].err = "readErr",
                                  ![c].readFailed = TRUE]
    /\ UNCHANGED <<registeredPlugins, managingLifeCycleJob, run, stop, lockReaders,
                   startPool, startPoolClosed, stopPoolClosed, alive, schedActive,
                   quitChan, crashed, initVars, catVars>>

\* coreplugin.go:145: if len(m.runningPlugins) > 0 (a read of the shared field)
ExecuteLen(c) ==
    /\ ~crashed
    /\ exec[c].pc = "len"
    /\ exec' = [exec EXCEPT ![c].pc = IF runningPlugins # {} THEN "range" ELSE "schedule"]
    /\ UNCHANGED <<registeredPlugins, runningPlugins, managingLifeCycleJob, run, stop,
                   lockReaders, startPool, startPoolClosed, stopPoolClosed, alive,
                   schedActive, quitChan, crashed, initVars, catVars>>

\* coreplugin.go:147: range m.runningPlugins evaluates the map once
ExecuteRange(c) ==
    /\ ~crashed
    /\ exec[c].pc = "range"
    /\ exec' = [exec EXCEPT ![c].todo = runningPlugins,
                            ![c].pc = IF runningPlugins # {} THEN "loop" ELSE "schedule"]
    /\ UNCHANGED <<registeredPlugins, runningPlugins, managingLifeCycleJob, run, stop,
                   lockReaders, startPool, startPoolClosed, stopPoolClosed, alive,
                   schedActive, quitChan, crashed, initVars, catVars>>

\* coreplugin.go:149: p = m.registeredPlugins[pluginName]; a missing key gives
\* the zero Plugin, whose Handler is the nil interface.
HandlerIsNil(n) == n \notin registeredPlugins

\* coreplugin.go:147-159: one iteration of the revival loop, up to the call
\* p.Handler.Start(m.context, p.Info.Configuration, "", task.NewChanneledCancelFlag()).
\* The call is made by Execute itself, with a cancel flag of its own; a call
\* through the nil Handler panics.
\* coreplugin.go:159: the fourth argument, task.NewChanneledCancelFlag(), is a
\* flag made for this call and kept by nobody else.
ExecuteCancelFlag == "own"

ExecuteRevive(c) ==
    /\ ~crashed
    /\ exec[c].pc = "loop"
    /\ \E n \in exec[c].todo :
         IF HandlerIsNil(n)
         THEN /\ crashed' = TRUE
              /\ exec' = [exec EXCEPT ![c].pc = "panic", ![c].cur = n]
         ELSE /\ crashed' = crashed
              /\ exec' = [exec EXCEPT ![c].pc = "inStart", ![c].cur = n,
                                      ![c].flag = ExecuteCancelFlag]
    /\ UNCHANGED <<registeredPlugins, runningPlugins, managingLifeCycleJob, run, stop,
                   lockReaders, startPool, startPoolClosed, stopPoolClosed, alive,
                   schedActive, quitChan, initVars, catVars>>

\* Handler.Start returns to Execute (coreplugin.go:159-160); the plugin it
\* started is then running, or the start failed (the result is not looked at).
ExecuteStartReturn(c) ==
    /\ ~crashed
    /\ exec[c].pc = "inStart"
    /\ alive' \in {alive \cup {exec[c].cur}, alive}
    /\ LET rest == exec[c].todo \ {exec[c].cur}
       IN exec' = [exec EXCEPT ![c].todo = rest, ![c].cur = "", ![c].flag = "none",
                               ![c].pc = IF rest = {} THEN "schedule" ELSE "loop"]
    /\ UNCHANGED <<registeredPlugins, runningPlugins, managingLifeCycleJob, run, stop,
                   lockReaders, startPool, startPoolClosed, stopPoolClosed,
                   schedActive, quitChan, crashed, initVars, catVars>>

\* coreplugin.go:166-170: m.managingLifeCycleJob, err = scheduler.Every(..).Run(..)
\* assigns the named result err; a failure is logged and the bare return hands
\* err to the caller. Run returns (nil, err) on failure.
ExecuteSchedule(c) ==
    /\ ~crashed
    /\ exec[c].pc = "schedule"
    /\ \/ /\ managingLifeCycleJob' = c
          /\ schedActive' = schedActive \cup {c}
          /\ exec' = [exec EXCEPT ![c].pc = "done", ![c].err = "nil"]
       \/ /\ managingLifeCycleJob' = NoJob
          /\ schedActive' = schedActive
          /\ exec' = [exec EXCEPT ![c].pc = "done", ![c].err = "schedErr",
                                  ![c].schedFailed = TRUE]
    /\ UNCHANGED <<registeredPlugins, runningPlugins, run, stop, lockReaders,
                   startPool, startPoolClosed, stopPoolClosed, alive, quitChan,
                   crashed, initVars, catVars>>

(* --------------------- start pool (task.Pool) -------------------------- *)
\* Submit: a job whose id is already pending or running is rejected, and so
\* is every job once the pool was shut down.
PoolAccepts(id) == ~startPoolClosed /\ \A j \in startPool : j.id # id

PoolSubmit(id, n) ==
    IF PoolAccepts(id)
    THEN startPool \cup {[id |-> id, plugin |-> n, state |-> "pending"]}
    ELSE startPool

\* a free worker takes a pending job and calls its closure, utils.go:47-50:
\* p.Handler.Start(m.context, p.Info.Configuration, "", cancelFlag)
PoolRunJob(j) ==
    /\ ~crashed
    /\ j \in startPool
    /\ j.state = "pending"
    /\ ~startPoolClosed
    /\ Cardinality({k \in startPool : k.state = "running"}) < NumberOfLongRunningPluginWorkers
    /\ startPool' = (startPool \ {j}) \cup {[j EXCEPT !.state = "running"]}
    /\ UNCHANGED <<registeredPlugins, runningPlugins, managingLifeCycleJob, exec, run,
                   stop, lockReaders, startPoolClosed, stopPoolClosed, alive,
                   schedActive, quitChan, crashed, initVars, catVars>>

\* the closure returns: the job leaves the pool's job store
PoolJobDone(j) ==
    /\ ~crashed
    /\ j \in startPool
    /\ j.state = "running"
    /\ startPool' = startPool \ {j}
    /\ alive' \in {alive \cup {j.plugin}, alive}
    /\ UNCHANGED <<registeredPlugins, runningPlugins, managingLifeCycleJob, exec, run,
                   stop, lockReaders, startPoolClosed, stopPoolClosed,
                   schedActive, quitChan, crashed, initVars, catVars>>

\* a running plugin dies silently (what reconciliation is there to repair)
PluginDies(n) ==
    /\ ~crashed
    /\ n \in alive
    /\ alive' = alive \ {n}
    /\ UNCHANGED <<registeredPlugins, runningPlugins, managingLifeCycleJob, exec, run,
                   stop, lockReaders, startPool, startPoolClosed, stopPoolClosed,
                   schedActive, quitChan, crashed, initVars, catVars>>

(* -------------------- ensurePluginsAreRunning -------------------------- *)
\* scheduler job s fires m.ensurePluginsAreRunning (coreplugin.go:166); the
\* run takes lock.RLock() (utils.go:39-40).
ReconcileBegin(s) ==
    /\ ~crashed
    /\ s \in schedActive
    /\ run[s].pc = "idle"
    /\ run' = [run EXCEPT ![s].pc = "len"]
    /\ lockReaders' = lockReaders \cup {s}
    /\ UNCHANGED <<registeredPlugins, runningPlugins, managingLifeCycleJob, exec, stop,
                   startPool, startPoolClosed, stopPoolClosed, alive, schedActive,
                   quitChan, crashed, initVars, catVars>>

\* utils.go:42: if len(m.runningPlugins) > 0, else the logged no-op of line 55
ReconcileLen(s) ==
    /\ ~crashed
    /\ run[s].pc = "len"
    /\ run' = [run EXCEPT ![s].pc = IF runningPlugins # {} THEN "range" ELSE "unlock"]
    /\ UNCHANGED <<registeredPlugins, runningPlugins, managingLifeCycleJob, exec, stop,
                   lockReaders, startPool, startPoolClosed, stopPoolClosed, alive,
                   schedActive, quitChan, crashed, initVars, catVars>>

\* utils.go:43: range m.runningPlugins
ReconcileRange(s) ==
    /\ ~crashed
    /\ run[s].pc = "range"
    /\ run' = [run EXCEPT ![s].todo = runningPlugins, ![s].snap = runningPlugins,
                          ![s].pc = IF runningPlugins # {} THEN "loop" ELSE "unlock"]
    /\ UNCHANGED <<registeredPlugins, runningPlugins, managingLifeCycleJob, exec, stop,
                   lockReaders, startPool, startPoolClosed, stopPoolClosed, alive,
                   schedActive, quitChan, crashed, initVars, catVars>>

\* utils.go:45: p.Handler.IsRunning(m.context)
IsRunning(n) == n \in alive

\* the check without the IsRunning test
NeedsStartIgnoringIsRunning(n) == n \in registeredPlugins

\* the check without the isRegistered test
NeedsStartUnregistered(n) == ~IsRunning(n)

\* utils.go:44-45: p, isRegistered := m.registeredPlugins[n];
\* if isRegistered && !p.Handler.IsRunning(m.context)
NeedsStart(n) == n \in registeredPlugins /\ ~IsRunning(n)

\* utils.go:43-45: one iteration of the loop up to the condition. sawRunning
\* keeps the names for which this run's IsRunning call returned true.
ReconcileCheck(s) ==
    /\ ~crashed
    /\ run[s].pc = "loop"
    /\ \E n \in run[s].todo :
         LET saw == IF n \in registeredPlugins /\ IsRunning(n)
                    THEN run[s].sawRunning \cup {n} ELSE run[s].sawRunning
             rest == run[s].todo \ {n}
         IN IF NeedsStart(n)
            THEN run' = [run EXCEPT ![s].pc = "submit", ![s].cur = n,
                                    ![s].sawRunning = saw]
            ELSE run' = [run EXCEPT ![s].todo = rest, ![s].sawRunning = saw,
                                    ![s].pc = IF rest = {} THEN "unlock" ELSE "loop"]
    /\ UNCHANGED <<registeredPlugins, runningPlugins, managingLifeCycleJob, exec, stop,
                   lockReaders, startPool, startPoolClosed, stopPoolClosed, alive,
                   schedActive, quitChan, crashed, initVars, catVars>>

\* a job id that differs from run to run
SubmitJobIdPerRun(n, s) == <<n, s>>

\* utils.go:47: the job id handed to m.startPlugin.Submit is the plugin name n
SubmitJobId(n, s) == n

\* utils.go:47-51: m.startPlugin.Submit(m.context.Log(), n, func(cancelFlag) {...})
ReconcileSubmit(s) ==
    /\ ~crashed
    /\ run[s].pc = "submit"
    /\ LET n == run[s].cur
           rest == run[s].todo \ {n}
       IN /\ startPool' = PoolSubmit(SubmitJobId(n, s), n)
          /\ run' = [run EXCEPT ![s].todo = rest, ![s].cur = "",
                        ![s].subs = @ \cup {n},
                        ![s].rejected = IF PoolAccepts(SubmitJobId(n, s))
                                        THEN @ ELSE @ \cup {n},
                        ![s].pc = IF rest = {} THEN "unlock" ELSE "loop"]
    /\ UNCHANGED <<registeredPlugins, runningPlugins, managingLifeCycleJob, exec, stop,
                   lockReaders, startPoolClosed, stopPoolClosed, alive,
                   schedActive, quitChan, crashed, initVars, catVars>>

\* utils.go:40: defer lock.RUnlock(); the run is over
ReconcileUnlock(s) ==
    /\ ~crashed
    /\ run[s].pc = "unlock"
    /\ run' = [run EXCEPT ![s] = IdleRun]
    /\ lockReaders' = lockReaders \ {s}
    /\ UNCHANGED <<registeredPlugins, runningPlugins, managingLifeCycleJob, exec, stop,
                   startPool, startPoolClosed, stopPoolClosed, alive, schedActive,
                   quitChan, crashed, initVars, catVars>>

(* --------------------------- RequestStop ------------------------------- *)
\* a RequestStop that gives every stop type the short deadline
WaitTimeoutAlwaysHard(stopType) == HardStopTimeout

\* coreplugin.go:177-181
WaitTimeout(stopType) ==
    IF stopType = "SoftStop" THEN SoftStopTimeout ELSE HardStopTimeout

StopBegin(k) ==
    /\ ~crashed
    /\ stop[k].pc = "idle"
    /\ \E t \in StopTypes :
         stop' = [stop EXCEPT ![k].pc = "quit", ![k].stopType = t,
                              ![k].waitTimeout = WaitTimeout(t)]
    /\ UNCHANGED <<registeredPlugins, runningPlugins, managingLifeCycleJob, exec, run,
                   lockReaders, startPool, startPoolClosed, stopPoolClosed, alive,
                   schedActive, quitChan, crashed, initVars, catVars>>

\* coreplugin.go:186 and utils.go:59-64: with a handle set, send on its Quit
\* channel (capacity 1: the send waits while a value is still buffered);
\* then the two shutdown goroutines are spawned (coreplugin.go:192-203).
\* seen keeps the schedules that were registered and active at this point.
stopLifeCycleManagementJob(k) ==
    /\ ~crashed
    /\ stop[k].pc = "quit"
    /\ IF managingLifeCycleJob # NoJob
       THEN /\ managingLifeCycleJob \notin quitChan
            /\ quitChan' = quitChan \cup {managingLifeCycleJob}
       ELSE quitChan' = quitChan
    /\ stop' = [stop EXCEPT ![k].pc = "wait", ![k].sdStart = "ready",
                            ![k].sdStop = "ready", ![k].seen = schedActive]
    /\ UNCHANGED <<registeredPlugins, runningPlugins, managingLifeCycleJob, exec, run,
                   lockReaders, startPool, startPoolClosed, stopPoolClosed, alive,
                   schedActive, crashed, initVars, catVars>>

\* the scheduler goroutine of job s receives from Quit and ends
SchedulerQuit(s) ==
    /\ ~crashed
    /\ s \in schedActive
    /\ s \in quitChan
    /\ schedActive' = schedActive \ {s}
    /\ quitChan' = quitChan \ {s}
    /\ UNCHANGED <<registeredPlugins, runningPlugins, managingLifeCycleJob, exec, run,
                   stop, lockReaders, startPool, startPoolClosed, stopPoolClosed,
                   alive, crashed, initVars, catVars>>

\* coreplugin.go:193-196: m.startPlugin.ShutdownAndWait(waitTimeout) begins:
\* the pool stops accepting jobs
ShutdownStartPool(k) ==
    /\ ~crashed
    /\ stop[k].sdStart = "ready"
    /\ startPoolClosed' = TRUE
    /\ stop' = [stop EXCEPT ![k].sdStart = "waiting",
                            ![k].toStart = stop[k].waitTimeout]
    /\ UNCHANGED <<registeredPlugins, runningPlugins, managingLifeCycleJob, exec, run,
                   lockReaders, startPool, stopPoolClosed, alive, schedActive,
                   quitChan, crashed, initVars, catVars>>

\* ShutdownAndWait returns: the jobs have ended or the deadline has passed
ShutdownStartPoolDone(k) ==
    /\ ~crashed
    /\ stop[k].sdStart = "waiting"
    /\ stop' = [stop EXCEPT ![k].sdStart = "done"]
    /\ UNCHANGED <<registeredPlugins, runningPlugins, managingLifeCycleJob, exec, run,
                   lockReaders, startPool, startPoolClosed, stopPoolClosed, alive,
                   schedActive, quitChan, crashed, initVars, catVars>>

\* a sequential RequestStop: the stop pool is shut down once the start pool's
\* ShutdownAndWait has returned
ShutdownStopPoolAfterStart(k) ==
    /\ ~crashed
    /\ stop[k].sdStop = "ready"
    /\ stop[k].sdStart = "done"
    /\ stopPoolClosed' = TRUE
    /\ stop' = [stop EXCEPT ![k].sdStop = "waiting",
                            ![k].toStop = stop[k].waitTimeout]
    /\ UNCHANGED <<registeredPlugins, runningPlugins, managingLifeCycleJob, exec, run,
                   lockReaders, startPool, startPoolClosed, alive, schedActive,
                   quitChan, crashed, initVars, catVars>>

\* coreplugin.go:200-203: m.stopPlugin.ShutdownAndWait(waitTimeout)
ShutdownStopPool(k) ==
    /\ ~crashed
    /\ stop[k].sdStop = "ready"
    /\ stopPoolClosed' = TRUE
    /\ stop' = [stop EXCEPT ![k].sdStop = "waiting",
                            ![k].toStop = stop[k].waitTimeout]
    /\ UNCHANGED <<registeredPlugins, runningPlugins, managingLifeCycleJob, exec, run,
                   lockReaders, startPool, startPoolClosed, alive, schedActive,
                   quitChan, crashed, initVars, catVars>>

ShutdownStopPoolDone(k) ==
    /\ ~crashed
    /\ stop[k].sdStop = "waiting"
    /\ stop' = [stop EXCEPT ![k].sdStop = "done"]
    /\ UNCHANGED <<registeredPlugins, runningPlugins, managingLifeCycleJob, exec, run,
                   lockReaders, startPool, startPoolClosed, stopPoolClosed, alive,
                   schedActive, quitChan, crashed, initVars, catVars>>

\* a RequestStop that reports a start pool that still holds jobs
StopReturnReportsUndrained(k) ==
    /\ ~crashed
    /\ stop[k].pc = "wait"
    /\ stop[k].sdStart = "done"
    /\ stop[k].sdStop = "done"
    /\ stop' = [stop EXCEPT ![k].pc = "returned",
                            ![k].ret = IF startPool = {} THEN "nil" ELSE "undrained"]
    /\ UNCHANGED <<registeredPlugins, runningPlugins, managingLifeCycleJob, exec, run,
                   lockReaders, startPool, startPoolClosed, stopPoolClosed, alive,
                   schedActive, quitChan, crashed, initVars, catVars>>

\* coreplugin.go:206-207: wg.Wait(); return nil
StopReturn(k) ==
    /\ ~crashed
    /\ stop[k].pc = "wait"
    /\ stop[k].sdStart = "done"
    /\ stop[k].sdStop = "done"
    /\ stop' = [stop EXCEPT ![k].pc = "returned", ![k].ret = "nil"]
    /\ UNCHANGED <<registeredPlugins, runningPlugins, managingLifeCycleJob, exec, run,
                   lockReaders, startPool, startPoolClosed, stopPoolClosed, alive,
                   schedActive, quitChan, crashed, initVars, catVars>>

(* ------------------------- specifications ------------------------------ *)
InitIdle ==
    /\ singletonInstance = NoJob
    /\ onceDone = FALSE
    /\ onceM = 0
    /\ initPc = [c \in InitCallers |-> [pc |-> "idle", regPlugins |-> {}]]
    /\ loadCount = 0
    /\ poolCount = 0
    /\ assignCount = 0
    /\ got = [g \in GetCalls |-> IdleGet]

\* the package state once the first EnsureInitialization has returned
InitDone ==
    /\ singletonInstance = 1
    /\ onceDone = TRUE
    /\ onceM = 0
    /\ initPc = [c \in InitCallers |->
                    [pc |-> IF c = 1 THEN "returned" ELSE "idle", regPlugins |-> {}]]
    /\ loadCount = 1
    /\ poolCount = 1
    /\ assignCount = 1
    /\ got = [g \in GetCalls |-> IdleGet]

CatalogIdle ==
    /\ registeredExecuters = 0
    /\ catPc = [c \in CatalogCallers |-> [pc |-> "idle", kind |-> "none"]]
    /\ workerLoads = 0
    /\ longRunningLoads = 0
    /\ cacheSwaps = 0

\* the Manager as EnsureInitialization builds it (coreplugin.go:85-104)
ManagerInit ==
    /\ runningPlugins = {}
    /\ managingLifeCycleJob = NoJob
    /\ exec = [c \in ExecCalls |-> IdleExec]
    /\ run = [s \in ExecCalls |-> IdleRun]
    /\ stop = [k \in StopCalls |-> IdleStop]
    /\ lockReaders = {}
    /\ startPool = {}
    /\ startPoolClosed = FALSE
    /\ stopPoolClosed = FALSE
    /\ alive = {}
    /\ schedActive = {}
    /\ quitChan = {}
    /\ crashed = FALSE

Init ==
    /\ registeredPlugins \in RegisteredPlugins
    /\ ManagerInit
    /\ InitDone
    /\ CatalogIdle

Next ==
    \/ \E c \in ExecCalls : ExecuteRead(c)
    \/ \E c \in ExecCalls : ExecuteLen(c)
    \/ \E c \in ExecCalls : ExecuteRange(c)
    \/ \E c \in ExecCalls : ExecuteRevive(c)
    \/ \E c \in ExecCalls : ExecuteStartReturn(c)
    \/ \E c \in ExecCalls : ExecuteSchedule(c)
    \/ \E j \in startPool : PoolRunJob(j)
    \/ \E j \in startPool : PoolJobDone(j)
    \/ \E n \in PluginNames : PluginDies(n)
    \/ \E s \in ExecCalls : ReconcileBegin(s)
    \/ \E s \in ExecCalls : ReconcileLen(s)
    \/ \E s \in ExecCalls : ReconcileRange(s)
    \/ \E s \in ExecCalls : ReconcileCheck(s)
    \/ \E s \in ExecCalls : ReconcileSubmit(s)
    \/ \E s \in ExecCalls : ReconcileUnlock(s)
    \/ \E s \in ExecCalls : SchedulerQuit(s)
    \/ \E k \in StopCalls : StopBegin(k)
    \/ \E k \in StopCalls : stopLifeCycleManagementJob(k)
    \/ \E k \in StopCalls : ShutdownStartPool(k)
    \/ \E k \in StopCalls : ShutdownStartPoolDone(k)
    \/ \E k \in StopCalls : ShutdownStopPool(k)
    \/ \E k \in StopCalls : ShutdownStopPoolDone(k)
    \/ \E k \in StopCalls : StopReturn(k)

Spec == Init /\ [][Next]_vars

(* ------------------- repeated RequestStop calls ------------------------ *)
\* number of RequestStop calls made on a Manager whose Execute has finished
MaxRepeatedStops == 3
RepeatedStops == 1..MaxRepeatedStops

\* utils.go:47-51: the job a reconciliation run of schedule 1 submitted for
\* aws:cloudWatch, taken by a worker and still inside Handler.Start
RunningStartJob ==
    [id |-> SubmitJobId(PluginNameAwsCloudwatch, 1),
     plugin |-> PluginNameAwsCloudwatch, state |-> "running"]

\* The Manager after one Execute that read {aws:cloudWatch}, started it and
\* registered schedule 1 (coreplugin.go:132-171); the start pool is empty or
\* holds the running job of a reconciliation run.
StopInit ==
    /\ registeredPlugins = {PluginNameAwsCloudwatch}
    /\ runningPlugins = {PluginNameAwsCloudwatch}
    /\ managingLifeCycleJob = 1
    /\ exec = [c \in ExecCalls |-> IF c = 1 THEN [IdleExec EXCEPT !.pc = "done"]
                                   ELSE IdleExec]
    /\ run = [s \in ExecCalls |-> IdleRun]
    /\ stop = [k \in RepeatedStops |-> IdleStop]
    /\ lockReaders = {}
    /\ startPool \in {{}, {RunningStartJob}}
    /\ startPoolClosed = FALSE
    /\ stopPoolClosed = FALSE
    /\ alive = {}
    /\ schedActive = {1}
    /\ quitChan = {}
    /\ crashed = FALSE
    /\ InitDone
    /\ CatalogIdle

StopNext ==
    \/ \E k \in RepeatedStops : StopBegin(k)
    \/ \E k \in RepeatedStops : stopLifeCycleManagementJob(k)
    \/ \E k \in RepeatedStops : ShutdownStartPool(k)
    \/ \E k \in RepeatedStops : ShutdownStartPoolDone(k)
    \/ \E k \in RepeatedStops : ShutdownStopPool(k)
    \/ \E k \in RepeatedStops : ShutdownStopPoolDone(k)
    \/ \E k \in RepeatedStops : StopReturn(k)
    \/ \E s \in ExecCalls : SchedulerQuit(s)
    \/ \E j \in startPool : PoolJobDone(j)

StopSpec == StopInit /\ [][StopNext]_vars

\* Every goroutine that can take a step is scheduled in the end, and a
\* ShutdownAndWait returns at its deadline at the latest; a job of the pool
\* need never end.
StopFairness ==
    /\ \A k \in RepeatedStops :
          /\ WF_vars(stopLifeCycleManagementJob(k))
          /\ WF_vars(ShutdownStartPool(k))
          /\ WF_vars(ShutdownStartPoolDone(k))
          /\ WF_vars(ShutdownStopPool(k))
          /\ WF_vars(ShutdownStopPoolDone(k))
          /\ WF_vars(StopReturn(k))
    /\ \A s \in ExecCalls : WF_vars(SchedulerQuit(s))

FairStopSpec == StopInit /\ [][StopNext]_vars /\ StopFairness

(* ----------------------- EnsureInitialization -------------------------- *)
\* coreplugin.go:75-81: once.Do(f); sync.Once returns at once when done is set
EnsureInitialization(c) ==
    /\ initPc[c].pc = "idle"
    /\ initPc' = [initPc EXCEPT ![c].pc = IF onceDone THEN "returned" ELSE "slow"]
    /\ UNCHANGED <<singletonInstance, onceDone, onceM, loadCount, poolCount,
                   assignCount, got, mgrVars, catVars>>

\* a caller takes the mutex of the sync.Once although another holds it
OnceLockNoExclusion(c) ==
    /\ initPc[c].pc = "slow"
    /\ onceM' = c
    /\ initPc' = [initPc EXCEPT ![c].pc = "locked"]
    /\ UNCHANGED <<singletonInstance, onceDone, loadCount, poolCount, assignCount,
                   got, mgrVars, catVars>>

\* coreplugin.go:81: once.Do, slow path: the callers that saw done unset queue
\* on the mutex of the sync.Once
OnceLock(c) ==
    /\ initPc[c].pc = "slow"
    /\ onceM = 0
    /\ onceM' = c
    /\ initPc' = [initPc EXCEPT ![c].pc = "locked"]
    /\ UNCHANGED <<singletonInstance, onceDone, loadCount, poolCount, assignCount,
                   got, mgrVars, catVars>>

\* coreplugin.go:81: once.Do, under the mutex: done is read again; a caller
\* that finds it set unlocks and returns without running f
OnceCheck(c) ==
    /\ initPc[c].pc = "locked"
    /\ IF onceDone
       THEN /\ onceM' = 0
            /\ initPc' = [initPc EXCEPT ![c].pc = "returned"]
       ELSE /\ onceM' = onceM
            /\ initPc' = [initPc EXCEPT ![c].pc = "load"]
    /\ UNCHANGED <<singletonInstance, onceDone, loadCount, poolCount, assignCount,
                   got, mgrVars, catVars>>

\* coreplugin.go:82-89: plugins := make(map..); regPlugins := RegisteredPlugins()
InitLoadPlugins(c) ==
    /\ initPc[c].pc = "load"
    /\ loadCount' = loadCount + 1
    /\ \E r \in RegisteredPlugins :
         initPc' = [initPc EXCEPT ![c].pc = "pools", ![c].regPlugins = r]
    /\ UNCHANGED <<singletonInstance, onceDone, onceM, poolCount, assignCount,
                   got, mgrVars, catVars>>

\* coreplugin.go:93-96: the two task.NewPool calls
InitCreatePools(c) ==
    /\ initPc[c].pc = "pools"
    /\ poolCount' = poolCount + 1
    /\ initPc' = [initPc EXCEPT ![c].pc = "assign"]
    /\ UNCHANGED <<singletonInstance, onceDone, onceM, loadCount, assignCount,
                   got, mgrVars, catVars>>

\* coreplugin.go:98-104: singletonInstance = &Manager{...}
InitAssign(c) ==
    /\ initPc[c].pc = "assign"
    /\ singletonInstance' = c
    /\ assignCount' = assignCount + 1
    /\ registeredPlugins' = initPc[c].regPlugins
    /\ runningPlugins' = {}
    /\ startPool' = {}
    /\ startPoolClosed' = FALSE
    /\ stopPoolClosed' = FALSE
    /\ initPc' = [initPc EXCEPT ![c].pc = "finish", ![c].regPlugins = {}]
    /\ UNCHANGED <<onceDone, onceM, loadCount, poolCount, managingLifeCycleJob, exec,
                   run, stop, lockReaders, alive, schedActive, quitChan, crashed,
                   got, catVars>>

\* coreplugin.go:105: f returns; sync.Once sets done and releases its mutex
OnceFinish(c) ==
    /\ initPc[c].pc = "finish"
    /\ onceDone' = TRUE
    /\ onceM' = 0
    /\ initPc' = [initPc EXCEPT ![c].pc = "returned"]
    /\ UNCHANGED <<singletonInstance, loadCount, poolCount, assignCount, got, mgrVars,
                   catVars>>

\* no Manager exists yet: the fields are those of the nil singleton
InitInit ==
    /\ registeredPlugins = {}
    /\ ManagerInit
    /\ InitIdle
    /\ CatalogIdle

InitNext ==
    \/ \E c \in InitCallers : EnsureInitialization(c)
    \/ \E c \in InitCallers : OnceLock(c)
    \/ \E c \in InitCallers : OnceCheck(c)
    \/ \E c \in InitCallers : InitLoadPlugins(c)
    \/ \E c \in InitCallers : InitCreatePools(c)
    \/ \E c \in InitCallers : InitAssign(c)
    \/ \E c \in InitCallers : OnceFinish(c)

InitSpec == InitInit /\ [][InitNext]_vars

(* ----------------------------- GetInstance ----------------------------- *)
\* coreplugin.go:110-119: under lock.Lock(), a nil singletonInstance gives
\* the error, any other value is returned with a nil error.  The assignment
\* of coreplugin.go:98 is not made under this lock: the read sees the value
\* from before or from after it.  initReturned and stopReturned keep what had
\* returned when the call was made.
GetInstance(g) ==
    /\ got[g].pc = "idle"
    /\ lockReaders = {}
    /\ got' = [got EXCEPT ![g] =
                  [pc |-> "returned",
                   inst |-> singletonInstance,
                   err |-> IF singletonInstance = NoJob
                           THEN "lrpm isn't initialized yet" ELSE "nil",
                   initReturned |-> \E c \in InitCallers : initPc[c].pc = "returned",
                   stopReturned |-> \E k \in DOMAIN stop : stop[k].pc = "returned"]]
    /\ UNCHANGED <<singletonInstance, onceDone, onceM, initPc, loadCount, poolCount,
                   assignCount, mgrVars, catVars>>

\* coreplugin.go:174: RequestStop is a method of the *Manager that a
\* GetInstance call handed out
RequestStopOnInstance(k) ==
    /\ \E g \in GetCalls : got[g].inst # NoJob
    /\ StopBegin(k)

InstanceNext ==
    \/ \E c \in InitCallers : EnsureInitialization(c)
    \/ \E c \in InitCallers : OnceLock(c)
    \/ \E c \in InitCallers : OnceCheck(c)
    \/ \E c \in InitCallers : InitLoadPlugins(c)
    \/ \E c \in InitCallers : InitCreatePools(c)
    \/ \E c \in InitCallers : InitAssign(c)
    \/ \E c \in InitCallers : OnceFinish(c)
    \/ \E g \in GetCalls : GetInstance(g)
    \/ \E k \in StopCalls : RequestStopOnInstance(k)
    \/ \E k \in StopCalls : stopLifeCycleManagementJob(k)
    \/ \E k \in StopCalls : ShutdownStartPool(k)
    \/ \E k \in StopCalls : ShutdownStartPoolDone(k)
    \/ \E k \in StopCalls : ShutdownStopPool(k)
    \/ \E k \in StopCalls : ShutdownStopPoolDone(k)
    \/ \E k \in StopCalls : StopReturn(k)

InstanceSpec == InitInit /\ [][InstanceNext]_vars

(* --------------------------- plugin catalog ---------------------------- *)
\* plugin.go:42: RegisteredWorkerPlugins is called
RegisteredWorkerPlugins(c) ==
    /\ catPc[c].pc = "idle"
    /\ catPc' = [catPc EXCEPT ![c].pc = "check", ![c].kind = "worker"]
    /\ UNCHANGED <<registeredExecuters, workerLoads, longRunningLoads, cacheSwaps,
                   mgrVars, initVars>>

\* plugin.go:50: RegisteredLongRunningPlugins is called
RegisteredLongRunningPlugins(c) ==
    /\ catPc[c].pc = "idle"
    /\ catPc' = [catPc EXCEPT ![c].pc = "check", ![c].kind = "longRunning"]
    /\ UNCHANGED <<registeredExecuters, workerLoads, longRunningLoads, cacheSwaps,
                   mgrVars, initVars>>

\* plugin.go:43,51 and 59-63: isLoaded() reads registeredExecuters != nil
\* under lock.RLock() and releases the lock before it returns
isLoaded(c) ==
    /\ catPc[c].pc = "check"
    /\ catPc' = [catPc EXCEPT ![c].pc = IF registeredExecuters # 0 THEN "get"
                                        ELSE "loadWorker"]
    /\ UNCHANGED <<registeredExecuters, workerLoads, longRunningLoads, cacheSwaps,
                   mgrVars, initVars>>

\* plugin.go:44,52: the first argument of cache(..), loadWorkerPlugins(context),
\* evaluated with no lock held
loadWorkerPlugins(c) ==
    /\ catPc[c].pc = "loadWorker"
    /\ workerLoads' = workerLoads + 1
    /\ catPc' = [catPc EXCEPT ![c].pc = "loadLongRunning"]
    /\ UNCHANGED <<registeredExecuters, longRunningLoads, cacheSwaps, mgrVars, initVars>>

\* plugin.go:44,52: the second argument, loadLongRunningPlugins(context)
loadLongRunningPlugins(c) ==
    /\ catPc[c].pc = "loadLongRunning"
    /\ longRunningLoads' = longRunningLoads + 1
    /\ catPc' = [catPc EXCEPT ![c].pc = "cache"]
    /\ UNCHANGED <<registeredExecuters, workerLoads, cacheSwaps, mgrVars, initVars>>

\* plugin.go:65-70: cache() takes lock.Lock() and stores both registries,
\* whatever is stored already
cache(c) ==
    /\ catPc[c].pc = "cache"
    /\ registeredExecuters' = c
    /\ cacheSwaps' = cacheSwaps + 1
    /\ catPc' = [catPc EXCEPT ![c].pc = "get"]
    /\ UNCHANGED <<workerLoads, longRunningLoads, mgrVars, initVars>>

\* plugin.go:46,54 and 72-82: getCachedWorkerPlugins / getCachedLongRunningPlugins
getCached(c) ==
    /\ catPc[c].pc = "get"
    /\ catPc' = [catPc EXCEPT ![c].pc = "returned"]
    /\ UNCHANGED <<registeredExecuters, workerLoads, longRunningLoads, cacheSwaps,
                   mgrVars, initVars>>

CatalogInit ==
    /\ registeredPlugins = {}
    /\ ManagerInit
    /\ InitIdle
    /\ CatalogIdle

CatalogNext ==
    \/ \E c \in CatalogCallers : RegisteredWorkerPlugins(c)
    \/ \E c \in CatalogCallers : RegisteredLongRunningPlugins(c)
    \/ \E c \in CatalogCallers : isLoaded(c)
    \/ \E c \in CatalogCallers : loadWorkerPlugins(c)
    \/ \E c \in CatalogCallers : loadLongRunningPlugins(c)
    \/ \E c \in CatalogCallers : cache(c)
    \/ \E c \in CatalogCallers : getCached(c)

CatalogSpec == CatalogInit /\ [][CatalogNext]_vars

(* ------------------------------ claims --------------------------------- *)
\* executions of Handler.Start for plugin n that have not returned
ExecuteStarts(n) == {c \in ExecCalls : exec[c].pc = "inStart" /\ exec[c].cur = n}
JobStarts(n) == {j \in startPool : j.state = "running" /\ j.plugin = n}

\* C1: a name of the persisted running set that has no registration is
\* skipped by Execute: no call of Execute ends in a panic on a missing handler.
C1_UnregisteredNameSkipped ==
    \A c \in ExecCalls : exec[c].pc # "panic" /\ ~crashed

\* C2: every start Execute makes for a name is a job of the start pool keyed
\* by that name, and two calls of Execute never have a start of the same name
\* in progress together.
C2_ExecuteStartIsOnePoolJob ==
    \A n \in PluginNames :
        /\ Cardinality(ExecuteStarts(n)) <= 1
        /\ ExecuteStarts(n) # {} => \E j \in startPool : j.id = n

\* C3: for every plugin name at most one execution of Handler.Start that
\* the Manager began (from Execute or from a job of the start pool) is active.
C3_AtMostOneActiveStart ==
    \A n \in PluginNames :
        Cardinality(ExecuteStarts(n)) + Cardinality(JobStarts(n)) <= 1

\* C4: an Execute whose data store read failed returns that error, has
\* started nothing and registered no schedule; while no other Execute got past
\* the read the job handle stays nil.
C4_ReadFailureAborts ==
    /\ \A c \in ExecCalls :
          exec[c].readFailed =>
              /\ exec[c].pc = "done"
              /\ exec[c].err = "readErr"
              /\ c \notin schedActive
              /\ managingLifeCycleJob # c
    /\ (\A c \in ExecCalls : exec[c].pc = "idle" \/ exec[c].readFailed) =>
           managingLifeCycleJob = NoJob /\ schedActive = {}

C4_Witness ==
    \E c \in ExecCalls : exec[c].readFailed /\ exec[c].pc = "done"

\* C5: an Execute whose registration with the scheduler failed returns no
\* error to its caller.
C5_ScheduleFailureContained ==
    \A c \in ExecCalls :
        exec[c].pc = "done" /\ exec[c].schedFailed => exec[c].err = "nil"

\* C6: a reconciliation run submits no start job for a name whose IsRunning
\* returned true when the run checked it.
C6_NoSubmitForRunning ==
    \A s \in ExecCalls :
        /\ run[s].subs \cap run[s].sawRunning = {}
        /\ run[s].pc = "submit" => run[s].cur \notin run[s].sawRunning

C6_Witness ==
    \E s \in ExecCalls : run[s].pc = "unlock" /\ run[s].sawRunning # {}

\* C7: every name a reconciliation run submits is a key of the running set
\* the run ranged over and a key of registeredPlugins; a run that saw an
\* empty running set submits nothing.
C7_SubmitsOnlyRunningAndRegistered ==
    \A s \in ExecCalls :
        /\ run[s].subs \subseteq (run[s].snap \cap registeredPlugins)
        /\ run[s].pc = "submit" => run[s].cur \in (run[s].snap \cap registeredPlugins)
        /\ run[s].snap = {} => run[s].subs = {} /\ run[s].pc # "submit"

C7_Witness ==
    \E s \in ExecCalls :
        /\ run[s].pc = "unlock"
        /\ run[s].subs = {PluginNameAwsCloudwatch}
        /\ UnknownPluginName \in run[s].snap

\* C8: the start pool never holds two pending-or-running jobs for the same
\* plugin name, also when two runs that hold the read lock together both
\* submit it.
C8_OneJobPerName ==
    \A n \in PluginNames :
        Cardinality({j \in startPool : j.plugin = n}) <= 1

C8_Witness ==
    \E s, t \in ExecCalls :
        /\ s # t
        /\ {s, t} \subseteq lockReaders
        /\ \E n \in PluginNames :
             /\ n \in run[s].subs
             /\ n \in run[t].rejected
             /\ \E j \in startPool : j.plugin = n

\* C9: with any number of concurrent callers of EnsureInitialization the
\* body runs at most once, and a caller that has returned finds the plugins
\* loaded once, one pair of pools, and the one Manager assigned.
C9_InitializedOnce ==
    /\ loadCount <= 1
    /\ poolCount <= 1
    /\ assignCount <= 1
    /\ \A c \in InitCallers :
          initPc[c].pc = "returned" =>
              /\ onceDone
              /\ singletonInstance # NoJob
              /\ loadCount = 1
              /\ poolCount = 1
              /\ assignCount = 1

C9_Witness ==
    /\ \A c \in InitCallers : initPc[c].pc = "returned"
    /\ assignCount = 1

\* C10: under concurrent first access to the catalog the combined load is
\* made once and the registries are swapped in once.
C10_LoadedOnce ==
    /\ workerLoads <= 1
    /\ longRunningLoads <= 1
    /\ cacheSwaps <= 1

\* C11: every RequestStop call that was made returns in the end, whether or
\* not the jobs of the pools ever end.
C11_EveryStopReturns ==
    \A k \in RepeatedStops : (stop[k].pc = "quit") ~> (stop[k].pc = "returned")

\* C12: a RequestStop call cancels the schedule before either pool shutdown
\* begins, and once its cancellation has been taken by the scheduler no
\* schedule that was registered when the call cancelled begins a new
\* reconciliation run.
C12_NoRunAfterCancel ==
    [][ /\ \A k \in StopCalls :
              stop[k].sdStart # "no" \/ stop[k].sdStop # "no"
                  => stop[k].pc \in {"wait", "returned"}
        /\ \A s \in ExecCalls :
              ( /\ \E k \in StopCalls : /\ stop[k].pc \in {"wait", "returned"}
                                        /\ s \in stop[k].seen
                /\ quitChan = {} )
                  => ~(run[s].pc = "idle" /\ run'[s].pc # "idle") ]_vars

\* C13: the two pool shutdowns of a RequestStop call can each begin whatever
\* the state of the other, and the call returns only after both
\* ShutdownAndWait calls have returned.
C13_ConcurrentShutdownsJoined ==
    \A k \in DOMAIN stop :
        /\ stop[k].pc = "returned" => stop[k].sdStart = "done" /\ stop[k].sdStop = "done"
        /\ stop[k].sdStart = "ready" => ENABLED ShutdownStartPool(k)
        /\ stop[k].sdStop = "ready" => ENABLED ShutdownStopPool(k)

\* both ShutdownAndWait calls of one RequestStop are in progress at once
C13_Witness ==
    \E k \in DOMAIN stop :
        /\ stop[k].pc = "wait"
        /\ stop[k].sdStart = "waiting"
        /\ stop[k].sdStop = "waiting"

\* C14: both pool shutdowns of a RequestStop call get the same deadline,
\* 20 seconds for SoftStop and 4 seconds for HardStop, and the soft deadline
\* is the greater one.
C14_DeadlineByStopType ==
    /\ SoftStopTimeout > HardStopTimeout
    /\ \A k \in DOMAIN stop :
          /\ stop[k].sdStart \in {"waiting", "done"}
                => stop[k].toStart = IF stop[k].stopType = "SoftStop" THEN 20 ELSE 4
          /\ stop[k].sdStop \in {"waiting", "done"}
                => stop[k].toStop = IF stop[k].stopType = "SoftStop" THEN 20 ELSE 4
          /\ stop[k].sdStart \in {"waiting", "done"} /\ stop[k].sdStop \in {"waiting", "done"}
                => stop[k].toStart = stop[k].toStop

\* a SoftStop and a HardStop have each begun both of their shutdowns
C14_Witness ==
    \E k, l \in DOMAIN stop :
        /\ stop[k].stopType = "SoftStop" /\ stop[l].stopType = "HardStop"
        /\ stop[k].sdStart = "done" /\ stop[k].sdStop = "done"
        /\ stop[l].sdStart = "done" /\ stop[l].sdStop = "done"

\* C15: a RequestStop call that returns returns nil, for both stop types and
\* whether or not the pools were empty when their shutdowns returned.
C15_StopReturnsNil ==
    \A k \in DOMAIN stop :
        /\ stop[k].pc = "returned" => stop[k].ret = "nil"
        /\ stop[k].pc # "returned" => stop[k].ret = "none"

\* a RequestStop has returned while the start pool still holds a running job
C15_Witness ==
    \E k \in DOMAIN stop :
        /\ stop[k].pc = "returned"
        /\ stop[k].ret = "nil"
        /\ \E j \in startPool : j.state = "running"

\* C16: a GetInstance call made before any EnsureInitialization call has
\* returned gives the "not initialized yet" error and no instance; a call
\* made after one has returned gives the one Manager and no error, also
\* after a RequestStop has returned.
C16_GetInstance ==
    \A g \in GetCalls :
        got[g].pc = "returned" =>
            IF got[g].initReturned
            THEN /\ got[g].err = "nil"
                 /\ got[g].inst # NoJob
                 /\ got[g].inst = singletonInstance
            ELSE /\ got[g].err = "lrpm isn't initialized yet"
                 /\ got[g].inst = NoJob

\* the cancel flags held by the Handler.Start calls in flight: the flag
\* Execute made for its call, and the pool's flag for every running job
StartCancelFlags ==
    {exec[c].flag : c \in {d \in ExecCalls : exec[d].pc = "inStart"}}
        \cup {"pool" : j \in {i \in startPool : i.state = "running"}}

\* C17: every Handler.Start the Manager has in flight holds the cancel flag
\* of the start pool, the one that the pool's shutdown sets.
C17_StartsHoldPoolFlag == StartCancelFlags \subseteq {"pool"}

\* C18: while a reconciliation run holds the read lock, no Execute call
\* assigns runningPlugins.
C18_NoWriteUnderReadLock ==
    [][ lockReaders # {} =>
            /\ runningPlugins' = runningPlugins
            /\ \A c \in ExecCalls : ~(exec[c].pc = "idle" /\ exec'[c].pc # "idle") ]_vars

\* C19: at most one schedule is active, and an active schedule is the one
\* that managingLifeCycleJob points to.
C19_HandleOwnsTheSchedule ==
    /\ Cardinality(schedActive) <= 1
    /\ schedActive # {} => managingLifeCycleJob \in schedActive

====
